---- MODULE Spec2Model ----
(***************************************************************************)
(* PychessGame (src/src/game.py): the game object that wraps a chess.Board *)
(* and keeps the information dictionary _info (turn, clocks, histories,    *)
(* winner).  Wall-clock time is counted in ticks of 1/TicksPerSec second;  *)
(* the clocks of the dictionary are whole seconds (math.ceil).             *)
(* PychessTUI (src/src/tui.py), the loop that runs a game from the         *)
(* keyboard, is the specification SpecTui.                                 *)
(***************************************************************************)
EXTENDS Integers, Sequences, FiniteSets, TLC

VARIABLES
    state,      \* self._state, the one chess.Board object of the game
    info,       \* self._info, the information dictionary (key -> value)
    now,        \* time.time(), in ticks
    op,         \* the public function called last
    ret,        \* what it returned ("True", "False", "None") or raised
    msg,        \* the last message the call handed to _wprint/_eprint
    nsuccess,   \* number of make_move calls that returned True
    tui         \* the PychessTUI object that runs the game, if one does

vars == <<state, info, now, op, ret, msg, nsuccess, tui>>

-----------------------------------------------------------------------------
(* Bounds of the model.                                                    *)

MaxTime == 4        \* the wall clock stops after MaxTime ticks
MaxPly == 3         \* at most MaxPly moves are pushed
MaxStart == 2       \* kwargs 'time' ranges over 0..MaxStart seconds
MaxIncr == 1        \* kwargs 'increment' ranges over 0..MaxIncr seconds
TicksPerSec == 2    \* resolution of time.time()
MaxEntries == 3     \* at most MaxEntries texts are entered in one game of the TUI
MaxGames == 2       \* one PychessTUI creates at most MaxGames games

-----------------------------------------------------------------------------
(* Values of utils.py and of the chess library used by game.py.            *)

WHITE == TRUE       \* chess.WHITE
BLACK == FALSE      \* chess.BLACK

\* math.ceil(n / d) for d > 0
Ceil(n, d) == -((-n) \div d)

Files == {"a", "b", "c", "d", "e", "f", "g", "h"}
Ranks == {"1", "2", "3", "4", "5", "6", "7", "8"}

\* chess.Move(from_square, to_square); a square is <<file, rank>>
Move(a, b, c, d) == [from |-> <<a, b>>, to |-> <<c, d>>]

\* move.uci()
Uci(m) == <<m.from[1], m.from[2], m.to[1], m.to[2]>>

(***************************************************************************)
(* The rules engine.  chess.Board is a library outside the repository; the *)
(* game uses its turn, legal_moves, push, outcome and fen.  Here a board   *)
(* is [turn, phase]: "open" is a position with legal moves and no outcome, *)
(* "mate" a checkmate of the side to move, "stale" a stalemate, "draw" an  *)
(* automatic draw that still has legal moves (fivefold repetition, the     *)
(* seventy-five-move rule, insufficient material).                         *)
(***************************************************************************)
Phases == {"open", "mate", "stale", "draw"}

\* chess.Board()
NewBoard == [turn |-> WHITE, phase |-> "open"]

WhiteMoves == {Move("e", "2", "e", "4"), Move("d", "1", "h", "5"),
               Move("g", "1", "f", "3"), Move("a", "2", "a", "3")}
BlackMoves == {Move("e", "7", "e", "5"), Move("d", "8", "h", "4"),
               Move("g", "8", "f", "6"), Move("a", "7", "a", "6")}

\* board.legal_moves
BoardLegalMoves(b) ==
    IF b.phase \in {"mate", "stale"} THEN {}
    ELSE IF b.turn = WHITE THEN WhiteMoves ELSE BlackMoves

\* the position a legal move leads to, by the file it starts from
PhaseAfter(m) ==
    CASE m.from[1] = "e" -> "open"
      [] m.from[1] = "d" -> "mate"
      [] m.from[1] = "g" -> "draw"
      [] OTHER           -> "stale"

\* board.push(move): the same object, mutated
BoardPush(b, m) == [turn |-> ~b.turn, phase |-> PhaseAfter(m)]

\* board.outcome().result(), "None" when board.outcome() is None
BoardResult(b) ==
    CASE b.phase = "mate"            -> IF b.turn = WHITE THEN "0-1" ELSE "1-0"
      [] b.phase \in {"stale", "draw"} -> "1/2-1/2"
      [] OTHER                       -> "None"

\* board.fen(): the position by value
Fen(b) == <<b.phase, b.turn>>

-----------------------------------------------------------------------------
(* PychessGame                                                             *)

\* the reference self._state, as stored in info['state-history']
StateRef == "_state"

\* the board a reference denotes: there is one chess.Board, b, which push
\* mutates in place, and every entry of 'state-history' refers to it
Deref(ref, b) == b

\* _init_info: the dictionary of a new game
InitInfo(b, time, increment, t) ==
    [k \in {"FEN", "turn", "time-prev-move", "time-start", "time-increment",
            "time-white", "time-black", "state-history", "move-history"} |->
        CASE k = "FEN"            -> Fen(b)
          [] k = "turn"           -> b.turn
          [] k = "time-prev-move" -> t
          [] k = "time-start"     -> time
          [] k = "time-increment" -> increment
          [] k = "time-white"     -> time
          [] k = "time-black"     -> time
          [] k = "state-history"  -> <<StateRef>>
          [] k = "move-history"   -> <<>>]

\* line 120/121, the branch of the side that moved:
\* time-start - (time.time() - time-prev-move) + time-increment, in ticks
Charged(inf, t) ==
    inf["time-start"] * TicksPerSec - (t - inf["time-prev-move"])
        + inf["time-increment"] * TicksPerSec

\* _update_info leaving out the append to 'move-history'
M_UpdateInfoNoMoveAppend(inf, b, move, t) ==
    LET turn == b.turn
        white == IF ~turn THEN Charged(inf, t)
                          ELSE inf["time-white"] * TicksPerSec
        black == IF turn THEN Charged(inf, t)
                         ELSE inf["time-black"] * TicksPerSec
    IN  [inf EXCEPT !["FEN"]           = Fen(b),
                    !["turn"]          = turn,
                    !["time-white"]    = Ceil(white, TicksPerSec),
                    !["time-black"]    = Ceil(black, TicksPerSec),
                    !["state-history"] = Append(@, StateRef)]

\* _update_info charging the side that is now to move
M_UpdateInfoChargeSideToMove(inf, b, move, t) ==
    LET turn == b.turn
        white == IF turn THEN Charged(inf, t)
                         ELSE inf["time-white"] * TicksPerSec
        black == IF ~turn THEN Charged(inf, t)
                          ELSE inf["time-black"] * TicksPerSec
    IN  [inf EXCEPT !["FEN"]           = Fen(b),
                    !["turn"]          = turn,
                    !["time-white"]    = Ceil(white, TicksPerSec),
                    !["time-black"]    = Ceil(black, TicksPerSec),
                    !["state-history"] = Append(@, StateRef),
                    !["move-history"]  = Append(@, move)]

\* _update_info leaving info['turn'] as it was
M_UpdateInfoStaleTurn(inf, b, move, t) ==
    LET turn == b.turn
        white == IF ~turn THEN Charged(inf, t)
                          ELSE inf["time-white"] * TicksPerSec
        black == IF turn THEN Charged(inf, t)
                         ELSE inf["time-black"] * TicksPerSec
    IN  [inf EXCEPT !["FEN"]           = Fen(b),
                    !["time-white"]    = Ceil(white, TicksPerSec),
                    !["time-black"]    = Ceil(black, TicksPerSec),
                    !["state-history"] = Append(@, StateRef),
                    !["move-history"]  = Append(@, move)]

\* _update_info(move), b being self._state after the push
UpdateInfo(inf, b, move, t) ==
    LET turn == b.turn
        white == IF ~turn THEN Charged(inf, t)
                          ELSE inf["time-white"] * TicksPerSec
        black == IF turn THEN Charged(inf, t)
                         ELSE inf["time-black"] * TicksPerSec
    IN  [inf EXCEPT !["FEN"]           = Fen(b),
                    !["turn"]          = turn,
                    !["time-white"]    = Ceil(white, TicksPerSec),
                    !["time-black"]    = Ceil(black, TicksPerSec),
                    !["state-history"] = Append(@, StateRef),
                    !["move-history"]  = Append(@, move)]

\* _legal_moves
LegalMoves(b) == BoardLegalMoves(b)

\* the characters make_move refuses (line 260; the ASCII ones but the
\* backquote, which no input of the model holds)
FaultyChars ==
    {"A", "B", "C", "D", "E", "F", "G", "H", "I", "J", "K", "L", "M", "N", "O",
     "P", "Q", "R", "S", "T", "U", "V", "W", "X", "Y", "Z",
     "i", "j", "k", "l", "m", "n", "o", "p", "q", "r", "s", "t", "u", "v", "w",
     "x", "y", "z", "9", "0", "/", ",", ";", ".", ":", "-", "_", "'", "*", "^",
     "~", "\\", "?", "+", "=", "}", ")", "]", "(", "[", "{", "&", "%", "$",
     "#", "\"", "@", "!"}

\* chess.Move.null()
NullMove == [from |-> <<"0", "0">>, to |-> <<"0", "0">>]

\* SQUARE_NAMES.index(uci[i:i+2]) finds the square
IsSquare(text, i) == text[i] \in Files /\ text[i + 1] \in Ranks

\* chess.Move.from_uci(text) for a text of 4 characters raises ValueError
FromUciRaises(text) ==
    /\ text # <<"0", "0", "0", "0">>
    /\ \/ ~IsSquare(text, 1)
       \/ ~IsSquare(text, 3)
       \/ <<text[1], text[2]>> = <<text[3], text[4]>>

\* chess.Move.from_uci(text), when it does not raise
FromUci(text) ==
    IF text = <<"0", "0", "0", "0">> THEN NullMove
    ELSE Move(text[1], text[2], text[3], text[4])

\* is_terminal's dictionary with the two decisive results exchanged
M_ResDictSwapped(result) ==
    CASE result = "1-0" -> "black wins!"
      [] result = "0-1" -> "white wins!"
      [] OTHER          -> "draw!"

\* is_terminal, line 289
ResDict(result) ==
    CASE result = "1-0" -> "white wins!"
      [] result = "0-1" -> "black wins!"
      [] OTHER          -> "draw!"

\* is_terminal asking the board for its outcome before it looks at the clocks
M_TerminalDecisionRulesFirst(inf, b) ==
    IF BoardResult(b) # "None"
    THEN <<"True", ResDict(BoardResult(b)),
           "game is terminal, either checkmate or draw/stalemate">>
    ELSE IF inf["time-white"] <= 0
    THEN <<"True", "black wins!", "game is terminal, black won on time">>
    ELSE IF inf["time-black"] <= 0
    THEN <<"True", "white wins!", "game is terminal, white won on time">>
    ELSE <<"False", "", "getting information">>

\* is_terminal looking at black's clock before white's
M_TerminalDecisionBlackFirst(inf, b) ==
    IF inf["time-black"] <= 0
    THEN <<"True", "white wins!", "game is terminal, white won on time">>
    ELSE IF inf["time-white"] <= 0
    THEN <<"True", "black wins!", "game is terminal, black won on time">>
    ELSE IF BoardResult(b) = "None"
    THEN <<"False", "", "getting information">>
    ELSE <<"True", ResDict(BoardResult(b)),
           "game is terminal, either checkmate or draw/stalemate">>

\* is_terminal, lines 277-292: the branch taken, as
\* <<what is returned, info['winner'], the last message>>
TerminalDecision(inf, b) ==
    IF inf["time-white"] <= 0
    THEN <<"True", "black wins!", "game is terminal, black won on time">>
    ELSE IF inf["time-black"] <= 0
    THEN <<"True", "white wins!", "game is terminal, white won on time">>
    ELSE IF BoardResult(b) = "None"
    THEN <<"False", "", "getting information">>
    ELSE <<"True", ResDict(BoardResult(b)),
           "game is terminal, either checkmate or draw/stalemate">>

\* get_prev_move returning the first move of the history
M_PrevMoveFirst(inf) ==
    IF Len(inf["move-history"]) < 1 THEN ""
    ELSE ToString(inf["move-history"][1])

\* get_prev_move, lines 234-239: "" when no move was made, else the last one
PrevMove(inf) ==
    IF Len(inf["move-history"]) < 1 THEN ""
    ELSE ToString(inf["move-history"][Len(inf["move-history"])])

-----------------------------------------------------------------------------
(* Values of tui.py and of the construction of a game from options.        *)

DEFAULT_TIME == 300         \* utils.py
DEFAULT_INCREMENT == 5

None == <<>>                \* Python's None
Some(v) == <<v>>            \* a value that is not None

\* a dictionary of options without a key
NoKwargs == [k \in {} |-> None]

\* d.get(key, default)
DictGet(d, key, default) == IF key \in DOMAIN d THEN d[key] ELSE default

\* _create_time_format(t_total, t_incr): divmod(None, 60) raises TypeError
CreateTimeFormatRaises(t_total) == t_total = None

\* PychessGame(players, **kwargs): what __init__ raises, "" when it returns
NewGameRaises(kwargs) ==
    IF CreateTimeFormatRaises(DictGet(kwargs, "time", Some(DEFAULT_TIME)))
    THEN "TypeError" ELSE ""

\* PychessGame(players, **kwargs) at time t: the dictionary of _init_info
NewGameInfo(kwargs, t) ==
    InitInfo(NewBoard,
             DictGet(kwargs, "time", Some(DEFAULT_TIME))[1],
             DictGet(kwargs, "increment", Some(DEFAULT_INCREMENT))[1], t)

\* self._game = None: no board and no dictionary
NoBoard == [turn |-> WHITE, phase |-> "none"]
NoInfo == [k \in {} |-> None]

\* The PychessTUI object: pc is where it stands ("off": there is none,
\* "new": constructed, "loop": at the test of the while of _run, "prompt"
\* and "query": waiting in getstr of _get_and_push_move and of
\* _query_new_game, "exited": start has returned), clock and terminal are
\* _clock and _terminal, kwargs is _kwargs; games counts the PychessGame
\* objects created, nclock and nmake the start_clock and make_move calls on
\* the game at hand.
NoTui == [pc |-> "off", clock |-> FALSE, terminal |-> FALSE,
          kwargs |-> NoKwargs, games |-> 0, nclock |-> 0, nmake |-> 0]

-----------------------------------------------------------------------------
(* Inputs of the calls.                                                    *)

IllegalMove == Move("a", "3", "b", "6")
MoveInputs == WhiteMoves \cup BlackMoves \cup {IllegalMove, NullMove}
TextInputs ==
    {Uci(m) : m \in {Move("e", "2", "e", "4"), Move("e", "7", "e", "5"),
                     IllegalMove}} \cup
    {<<"e", "2", "e", "4", "x">>, <<"z", "z", "9", "9">>, <<"a", "a", "a", "a">>,
     <<"2", "e", "4", "e">>, <<"a", "1", "a", "1">>, <<"e", "2", " ", "4">>,
     <<"<", "|", "<", "|">>, <<"e", "2", "e">>, <<>>}
KeyInputs == {"turn", "time-white", "winner", "bingbong"}
SetKeys == {"bingbong", "winner", "time-white"}
SetVals(key) == IF key = "winner" THEN {"draw!"} ELSE {0, 1}
TuiKwargs ==
    {NoKwargs} \cup {[time |-> Some(t), increment |-> Some(i)] :
                        t \in 0..MaxStart, i \in 0..MaxIncr}
TuiTexts ==
    {Uci(m) : m \in {Move("e", "2", "e", "4"), Move("e", "7", "e", "5"),
                     Move("d", "1", "h", "5"), IllegalMove}} \cup
    {<<"z", "z", "9", "9">>, <<"a", "a", "a", "a">>}
TuiAnswers == {"Y", "n"}

-----------------------------------------------------------------------------
(* The calls.                                                              *)

\* __init__(players, **kwargs) with time and increment given
Init ==
    /\ now = 0
    /\ state = NewBoard
    /\ \E time \in 0..MaxStart, increment \in 0..MaxIncr :
          info = InitInfo(NewBoard, time, increment, now)
    /\ op = "__init__"
    /\ ret = "None"
    /\ msg = "intialization done"
    /\ nsuccess = 0
    /\ tui = NoTui

\* wall-clock time passes between two calls
Tick ==
    /\ now < MaxTime
    /\ now' = now + 1
    /\ op' = "tick"
    /\ ret' = "None"
    /\ UNCHANGED <<state, info, msg, nsuccess, tui>>

\* start_clock leaving 'time-prev-move' as _init_info set it
M_StartClockKeepsTimestamp ==
    /\ op' = "start_clock"
    /\ ret' = "None"
    /\ msg' = "starting clock"
    /\ UNCHANGED <<state, info, now, nsuccess, tui>>

\* start_clock()
StartClock ==
    /\ info' = [info EXCEPT !["time-prev-move"] = now]
    /\ op' = "start_clock"
    /\ ret' = "None"
    /\ msg' = "starting clock"
    /\ UNCHANGED <<state, now, nsuccess, tui>>

\* get_info answering an unknown key with a default (dict.get)
M_GetInfoDefault(key) ==
    /\ op' = "get_info"
    /\ msg' = "getting information"
    /\ ret' = IF key \in DOMAIN info THEN ToString(info[key]) ELSE "None"
    /\ UNCHANGED <<state, info, now, nsuccess, tui>>

\* get_info bringing the clock of the side to move up to date before it
\* answers
M_GetInfoCharges(key) ==
    /\ op' = "get_info"
    /\ msg' = "getting information"
    /\ ret' = IF key \in DOMAIN info THEN ToString(info[key]) ELSE "KeyError"
    /\ info' = [info EXCEPT
                  ![IF info["turn"] = WHITE THEN "time-white" ELSE "time-black"] =
                      Ceil(@ * TicksPerSec - (now - info["time-prev-move"]),
                           TicksPerSec)]
    /\ UNCHANGED <<state, now, nsuccess, tui>>

\* get_info(key)
GetInfo(key) ==
    /\ op' = "get_info"
    /\ msg' = "getting information"
    /\ ret' = IF key \in DOMAIN info THEN ToString(info[key]) ELSE "KeyError"
    /\ UNCHANGED <<state, info, now, nsuccess, tui>>

\* get_prev_move()
GetPrevMove ==
    /\ op' = "get_prev_move"
    /\ ret' = PrevMove(info)
    /\ msg' = IF Len(info["move-history"]) < 1 THEN "no previous move found"
                                                ELSE "returning previous move"
    /\ UNCHANGED <<state, info, now, nsuccess, tui>>

\* _push_move pushing the move without looking it up in the legal moves
M_PushMoveNoLegalCheck(move) ==
    /\ Len(info["move-history"]) < MaxPly
    /\ state' = BoardPush(state, move)
    /\ info' = UpdateInfo(info, BoardPush(state, move), move, now)
    /\ ret' = "True"
    /\ msg' = "pushing and updating done"
    /\ nsuccess' = nsuccess + 1

\* _push_move(move)
PushMove(move) ==
    IF move \in LegalMoves(state)
    THEN /\ Len(info["move-history"]) < MaxPly
         /\ state' = BoardPush(state, move)
         /\ info' = UpdateInfo(info, BoardPush(state, move), move, now)
         /\ ret' = "True"
         /\ msg' = "pushing and updating done"
         /\ nsuccess' = nsuccess + 1
    ELSE /\ ret' = "False"
         /\ msg' = "got illegal move from user"
         /\ UNCHANGED <<state, info, nsuccess>>

\* make_move(move), move a chess.Move
MakeMoveValue(move) ==
    /\ op' = "make_move"
    /\ PushMove(move)
    /\ UNCHANGED <<now, tui>>

\* make_move(move), move a text
MakeMoveText(text) ==
    /\ op' = "make_move"
    /\ UNCHANGED <<now, tui>>
    /\ IF Len(text) # 4 \/ \E i \in 1..Len(text) : text[i] \in FaultyChars
       THEN /\ ret' = "False"
            /\ msg' = "got faulty move input from user"
            /\ UNCHANGED <<state, info, nsuccess>>
       ELSE IF FromUciRaises(text)
       THEN /\ ret' = "ValueError"
            /\ UNCHANGED <<state, info, msg, nsuccess>>
       ELSE PushMove(FromUci(text))

\* is_terminal()
IsTerminal ==
    LET d == TerminalDecision(info, state) IN
    /\ op' = "is_terminal"
    /\ ret' = d[1]
    /\ msg' = d[3]
    /\ info' = IF d[1] = "True" THEN ("winner" :> d[2]) @@ info ELSE info
    /\ UNCHANGED <<state, now, nsuccess, tui>>

Next ==
    \/ Tick
    \/ StartClock
    \/ \E key \in KeyInputs : GetInfo(key)
    \/ GetPrevMove
    \/ \E move \in MoveInputs : MakeMoveValue(move)
    \/ \E text \in TextInputs : MakeMoveText(text)
    \/ IsTerminal

Spec == Init /\ [][Next]_vars

\* __init__ with any integers for 'time' and 'increment'
InitAnyConfig ==
    /\ now = 0
    /\ state = NewBoard
    /\ \E time \in -1..MaxStart, increment \in -1..MaxIncr :
          info = InitInfo(NewBoard, time, increment, now)
    /\ op = "__init__"
    /\ ret = "None"
    /\ msg = "intialization done"
    /\ nsuccess = 0
    /\ tui = NoTui

SpecAnyConfig == InitAnyConfig /\ [][Next]_vars

-----------------------------------------------------------------------------
(* _set_info, which no other function of the game calls.                  *)

\* _set_info writing the key without looking for it (a plain assignment)
M_SetInfoNoKeyCheck(key, val) ==
    /\ op' = "_set_info"
    /\ info' = (key :> val) @@ info
    /\ ret' = "True"
    /\ msg' = "setting information done"
    /\ UNCHANGED <<state, now, nsuccess, tui>>

\* _set_info(key, val)
SetInfo(key, val) ==
    /\ op' = "_set_info"
    /\ IF key \notin DOMAIN info
       THEN /\ ret' = "False"
            /\ msg' = "could not set information, invalid key"
            /\ info' = info
       ELSE /\ info' = [info EXCEPT ![key] = val]
            /\ ret' = "True"
            /\ msg' = "setting information done"
    /\ UNCHANGED <<state, now, nsuccess, tui>>

NextSetInfo ==
    \/ \E key \in SetKeys : \E val \in SetVals(key) : SetInfo(key, val)
    \/ Tick
    \/ \E move \in MoveInputs : MakeMoveValue(move)
    \/ IsTerminal

SpecSetInfo == Init /\ [][NextSetInfo]_vars

-----------------------------------------------------------------------------
(* PychessTUI.  A step of it runs from one wait for the keyboard to the   *)
(* next; the terminal is large enough for _initscreen and no SIGINT comes. *)

\* the options PychessTUI passes to PychessGame (lines 198, 239)
TuiGameKwargs(t) ==
    [time      |-> DictGet(t.kwargs, "time", None),
     increment |-> DictGet(t.kwargs, "increment", None)]

\* PychessTUI(players, names, **kwargs)
InitTui ==
    /\ now = 0
    /\ state = NoBoard
    /\ info = NoInfo
    /\ op = "PychessTUI"
    /\ ret = "None"
    /\ msg = ""
    /\ nsuccess = 0
    /\ \E kw \in TuiKwargs :
          tui = [pc |-> "new", clock |-> FALSE, terminal |-> FALSE,
                 kwargs |-> kw, games |-> 0, nclock |-> 0, nmake |-> 0]

\* start(), up to the while of _run
TuiStart ==
    /\ tui.pc = "new"
    /\ op' = "start"
    /\ ret' = "None"
    /\ IF NewGameRaises(TuiGameKwargs(tui)) # ""
       THEN /\ msg' = "could not create new game instance, terminating ..."
            /\ tui' = [tui EXCEPT !.pc = "exited"]
            /\ UNCHANGED <<state, info, nsuccess>>
       ELSE /\ msg' = "intialization done"
            /\ state' = NewBoard
            /\ info' = NewGameInfo(TuiGameKwargs(tui), now)
            /\ nsuccess' = 0
            /\ tui' = [tui EXCEPT !.pc = "loop", !.games = 1]
    /\ UNCHANGED now

\* the test of the while of _run (line 221); then _blit, or
\* _query_new_game up to its getstr
TuiLoopTest ==
    LET d == TerminalDecision(info, state) IN
    /\ tui.pc = "loop"
    /\ op' = "is_terminal"
    /\ ret' = d[1]
    /\ msg' = d[3]
    /\ info' = IF d[1] = "True" THEN ("winner" :> d[2]) @@ info ELSE info
    /\ tui' = IF d[1] = "True"
              THEN [tui EXCEPT !.pc = "query", !.terminal = TRUE]
              ELSE [tui EXCEPT !.pc = "prompt"]
    /\ UNCHANGED <<state, now, nsuccess>>

\* make_move(text) on board b and dictionary inf at time t, as
\* <<what is returned or raised, the last message, the board, the dictionary>>
MakeMove(b, inf, text, t) ==
    IF Len(text) # 4 \/ \E i \in 1..Len(text) : text[i] \in FaultyChars
    THEN <<"False", "got faulty move input from user", b, inf>>
    ELSE IF FromUciRaises(text)
    THEN <<"ValueError", "SIGINT exception in _run, exiting ...", b, inf>>
    ELSE IF FromUci(text) \in LegalMoves(b)
    THEN <<"True", "pushing and updating done", BoardPush(b, FromUci(text)),
           UpdateInfo(inf, BoardPush(b, FromUci(text)), FromUci(text), t)>>
    ELSE <<"False", "got illegal move from user", b, inf>>

\* _get_and_push_move calling start_clock before every make_move
M_ClockToStart(t) == TRUE

\* the test of line 170
ClockToStart(t) == t.clock = FALSE

\* _get_and_push_move() with the text the user entered, back to the while
\* of _run, or through the except of _run to _quit
TuiEnter(text) ==
    LET inf == IF ClockToStart(tui)
               THEN [info EXCEPT !["time-prev-move"] = now] ELSE info
        r   == MakeMove(state, inf, text, now)
    IN  /\ tui.pc = "prompt"
        /\ tui.nmake < MaxEntries
        /\ r[1] = "True" => Len(info["move-history"]) < MaxPly
        /\ op' = "make_move"
        /\ ret' = r[1]
        /\ msg' = r[2]
        /\ state' = r[3]
        /\ info' = r[4]
        /\ nsuccess' = IF r[1] = "True" THEN nsuccess + 1 ELSE nsuccess
        /\ tui' = [tui EXCEPT !.clock = TRUE,
                              !.nclock = IF ClockToStart(tui) THEN @ + 1 ELSE @,
                              !.nmake = @ + 1,
                              !.pc = IF r[1] = "ValueError" THEN "exited"
                                                            ELSE "loop"]
        /\ UNCHANGED now

\* _query_new_game() from its getstr on, with the answer of the user:
\* _restart, or _quit
TuiAnswer(resp) ==
    /\ tui.pc = "query"
    /\ op' = "_query_new_game"
    /\ ret' = "None"
    /\ IF resp = "Y"
       THEN /\ tui.games < MaxGames
            /\ IF NewGameRaises(TuiGameKwargs(tui)) # ""
               THEN /\ msg' = "SIGINT exception in _run, exiting ..."
                    /\ tui' = [tui EXCEPT !.pc = "exited"]
                    /\ UNCHANGED <<state, info, nsuccess>>
               ELSE /\ msg' = "intialization done"
                    /\ state' = NewBoard
                    /\ info' = NewGameInfo(TuiGameKwargs(tui), now)
                    /\ nsuccess' = 0
                    /\ tui' = [tui EXCEPT !.pc = "loop", !.clock = FALSE,
                                          !.terminal = FALSE, !.games = @ + 1,
                                          !.nclock = 0, !.nmake = 0]
       ELSE /\ msg' = "game is done, cleaning up and terminating ..."
            /\ tui' = [tui EXCEPT !.pc = "exited"]
            /\ UNCHANGED <<state, info, nsuccess>>
    /\ UNCHANGED now

NextTui ==
    \/ Tick
    \/ TuiStart
    \/ TuiLoopTest
    \/ \E text \in TuiTexts : TuiEnter(text)
    \/ \E resp \in TuiAnswers : TuiAnswer(resp)

SpecTui == InitTui /\ [][NextTui]_vars

-----------------------------------------------------------------------------
(* Properties.                                                             *)

\* the side that is to move, and its clock in the dictionary
ClockKey(side) == IF side = WHITE THEN "time-white" ELSE "time-black"
SuccessfulMove == op' = "make_move" /\ ret' = "True"

\* C1: in every reachable state the position history is one longer than the
\* move history, and the move history is as long as the number of make_move
\* calls that returned True (a failed call appends nothing).
C1_HistoryLengths ==
    /\ Len(info["state-history"]) = Len(info["move-history"]) + 1
    /\ Len(info["move-history"]) = nsuccess

\* a rejected move after two accepted ones
C1_Witness ==
    /\ op = "make_move" /\ ret = "False"
    /\ nsuccess = 2 /\ Len(info["move-history"]) = 2

\* C2: on every successful make_move the mover's clock becomes its value
\* before the move, minus the time elapsed since 'time-prev-move', plus the
\* increment (rounded up to whole seconds).
C2_MoverClockFromPrevious ==
    [][SuccessfulMove =>
         LET k == ClockKey(info["turn"])
         IN  info'[k] = Ceil(info[k] * TicksPerSec
                               - (now - info["time-prev-move"])
                               + info["time-increment"] * TicksPerSec,
                             TicksPerSec)]_vars

\* C3: on every successful make_move the elapsed time is charged to the side
\* that moved (its clock is the one recomputed from the elapsed time) and the
\* clock of the side now to move is unchanged.
C3_ChargedToMover ==
    [][SuccessfulMove =>
         LET mover   == ClockKey(info["turn"])
             other   == ClockKey(~info["turn"])
             elapsed == now - info["time-prev-move"]
             left    == (info["time-start"] + info["time-increment"]) * TicksPerSec
                            - elapsed
         IN  /\ info'[other] = info[other]
             /\ info'[mover] * TicksPerSec >= left
             /\ info'[mover] * TicksPerSec < left + TicksPerSec]_vars

\* a move made some time after the clock started, the opponent's clock whole
C3_Witness ==
    /\ op = "make_move" /\ ret = "True"
    /\ now > info["time-prev-move"]
    /\ info["time-start"] > 0
    /\ info[ClockKey(~info["turn"])] < info["time-start"]
    /\ info[ClockKey(info["turn"])] = info["time-start"]

\* C4: right after every successful make_move 'time-prev-move' is the time
\* of that move.
C4_TimestampReset ==
    (op = "make_move" /\ ret = "True") => info["time-prev-move"] = now

\* C5: info['turn'] is always the side to move of the board; a successful
\* make_move hands the turn to the other side, a failed one leaves it.
C5_Turn ==
    /\ [](info["turn"] = state.turn)
    /\ [][op' = "make_move" =>
            IF ret' = "True" THEN /\ info'["turn"] = ~info["turn"]
                                  /\ info'["turn"] = state'.turn
                             ELSE info'["turn"] = info["turn"]]_vars

\* black has just moved, it is white's turn again
C5_Witness ==
    /\ op = "make_move" /\ ret = "True"
    /\ nsuccess = 2 /\ info["turn"] = WHITE

\* C6: when a clock is <= 0, is_terminal returns True and records a win on
\* time for the opponent of a side whose clock is <= 0, whatever the board
\* says (legal moves left, a checkmate, a draw).
C6_TimeForfeitFirst ==
    (op = "is_terminal" /\ (info["time-white"] <= 0 \/ info["time-black"] <= 0))
    => /\ ret = "True"
       /\ "winner" \in DOMAIN info
       /\ \/ /\ info["time-white"] <= 0
             /\ info["winner"] = "black wins!"
             /\ msg = "game is terminal, black won on time"
          \/ /\ info["time-black"] <= 0
             /\ info["winner"] = "white wins!"
             /\ msg = "game is terminal, white won on time"

\* white has mated black with its flag down: the board says 1-0, the game
\* says black wins on time
C6_Witness ==
    /\ op = "is_terminal" /\ ret = "True"
    /\ info["time-white"] <= 0 /\ info["time-black"] > 0
    /\ BoardResult(state) = "1-0"
    /\ info["winner"] = "black wins!"

\* C7: once is_terminal has returned True (info['winner'] is set), every
\* make_move fails and leaves board and dictionary unchanged.
C7_TerminalAbsorbing ==
    [][("winner" \in DOMAIN info /\ op' = "make_move")
         => (ret' # "True" /\ state' = state /\ info' = info)]_vars

\* C8: once is_terminal has returned True, every later is_terminal returns
\* True and leaves the recorded winner as it was.
C8_OutcomeSetOnce ==
    [][("winner" \in DOMAIN info /\ op' = "is_terminal")
         => (ret' = "True" /\ info'["winner"] = info["winner"])]_vars

\* a text of the coordinate form: four characters, two squares, not the same
WellFormed(text) ==
    /\ Len(text) = 4
    /\ IsSquare(text, 1) /\ IsSquare(text, 3)
    /\ <<text[1], text[2]>> # <<text[3], text[4]>>

\* C9: make_move of a text that is not of the coordinate form returns False
\* with the faulty-input message (no exception, no legality check) and
\* changes nothing.
C9_MalformedRejected ==
    [][\A text \in TextInputs :
          (~WellFormed(text) /\ MakeMoveText(text))
          => /\ ret' = "False"
             /\ msg' = "got faulty move input from user"
             /\ state' = state /\ info' = info]_vars

\* what the legal moves of the board decide for a well-formed move
LegalityDecides(move) ==
    IF move \in BoardLegalMoves(state)
    THEN /\ ret' = "True"
         /\ info'["move-history"] = Append(info["move-history"], move)
    ELSE /\ ret' = "False"
         /\ state' = state /\ info' = info

C11_PrevMove ==
    /\ op = "get_prev_move" =>
          /\ (ret = "") = (nsuccess = 0)
          /\ nsuccess > 0 =>
                /\ \E m \in WhiteMoves \cup BlackMoves :
                      /\ ret = ToString(m)
                      /\ PhaseAfter(m) = state.phase
                      /\ (m \in WhiteMoves) = (state.turn = BLACK)
    /\ \A move \in MoveInputs :
          ~ENABLED (/\ MakeMoveValue(move)
                    /\ ret' = "False"
                    /\ PrevMove(info') # PrevMove(info))

\* the last move is read after white and black have moved
C11_Witness ==
    /\ op = "get_prev_move"
    /\ nsuccess = 2
    /\ ret = ToString(Move("e", "7", "e", "5"))

\* C12: with both clocks above 0, is_terminal returns True exactly when the
\* board has an outcome; the winner recorded is the side that is not to move
\* on a checkmate and 'draw!' on a stalemate or an automatic draw.
C12_RulesOutcome ==
    (op = "is_terminal" /\ info["time-white"] > 0 /\ info["time-black"] > 0)
    => /\ (ret = "True") = (state.phase # "open")
       /\ ret = "False" => BoardLegalMoves(state) # {}
       /\ state.phase = "mate" =>
             info["winner"] = IF state.turn = WHITE THEN "black wins!"
                                                    ELSE "white wins!"
       /\ state.phase \in {"stale", "draw"} => info["winner"] = "draw!"

\* black has mated white in time
C12_Witness ==
    /\ op = "is_terminal" /\ ret = "True"
    /\ info["time-white"] > 0 /\ info["time-black"] > 0
    /\ state = [turn |-> WHITE, phase |-> "mate"]
    /\ info["winner"] = "black wins!"

\* C13: get_info of a key the dictionary does not hold raises KeyError (it
\* returns no default) and changes nothing.
C13_UnknownKey ==
    \A key \in KeyInputs :
        key \notin DOMAIN info
        => ~ENABLED (/\ GetInfo(key)
                     /\ ~(ret' = "KeyError" /\ state' = state /\ info' = info))

\* an unknown key was asked for in the middle of a game
C13_Witness ==
    /\ op = "get_info" /\ ret = "KeyError"
    /\ nsuccess = 1
    /\ "winner" \in DOMAIN info

\* C14: start_clock on a game for which is_terminal has returned True
\* changes nothing.
C14_StartClockAfterTerminal ==
    [][("winner" \in DOMAIN info /\ op' = "start_clock")
         => (info' = info /\ state' = state)]_vars

\* C15: a clock that is <= 0 never becomes larger again.
C15_ExpiredStays ==
    [][\A k \in {"time-white", "time-black"} :
          info[k] <= 0 => info'[k] <= info[k]]_vars

\* the position the i-th entry of 'state-history' shows
Position(i) == Deref(info["state-history"][i], state)

\* C16: the first entry of the position history is the initial position,
\* and the i-th move of the move history is a legal move of the i-th
\* position that leads to the (i+1)-th.
C16_HistoryFaithful ==
    /\ Position(1) = NewBoard
    /\ \A i \in 1..Len(info["move-history"]) :
          /\ info["move-history"][i] \in BoardLegalMoves(Position(i))
          /\ BoardPush(Position(i), info["move-history"][i]) = Position(i + 1)

\* C17: every game that exists has a starting time >= 0 and an increment
\* >= 0 (the creation with a negative one fails).
C17_ConfigChecked ==
    info["time-start"] >= 0 /\ info["time-increment"] >= 0

\* C18: a start_clock call on a game whose clock was started before (only
\* start_clock writes 'time-prev-move', so one that is not the time of the
\* creation, 0, shows an earlier call) leaves the accounting as it was: what
\* a mover is charged at any later time is the same as without the call.
C18_StartClockIdempotent ==
    [][(info["time-prev-move"] > 0 /\ op' = "start_clock")
         => \A t \in now..MaxTime : Charged(info', t) = Charged(info, t)]_vars

\* C19: the first mover is charged the time since the start_clock call
\* only, whatever passed between the creation and the call: start_clock
\* leaves the current time in 'time-prev-move', and the clock of the first
\* mover is start + increment less the time since 'time-prev-move', rounded
\* up.
C19_SetupTimeFree ==
    /\ op = "start_clock" => info["time-prev-move"] = now
    /\ nsuccess = 0
       => \A move \in MoveInputs :
             ~ENABLED (/\ MakeMoveValue(move)
                       /\ ret' = "True"
                       /\ LET k    == ClockKey(info["turn"])
                              left == (info["time-start"] + info["time-increment"])
                                          * TicksPerSec
                                      - (now - info["time-prev-move"])
                          IN  ~(/\ info'[k] * TicksPerSec >= left
                                /\ info'[k] * TicksPerSec < left + TicksPerSec))

\* the clock was started a second after the creation and white moved half
\* a second later: the clock shows 2 (1 were the first second charged)
C19_Witness ==
    /\ op = "make_move" /\ ret = "True"
    /\ nsuccess = 1
    /\ info["time-start"] = 2 /\ info["time-increment"] = 0
    /\ info["time-prev-move"] = TicksPerSec
    /\ now = TicksPerSec + 1
    /\ info["time-white"] = 2

\* C20, on the first turn of the game, which began at 'time-prev-move' (the
\* creation or the last start_clock call): when white has let more time
\* pass than its clock holds in a game the board has not decided, and black
\* has time left, is_terminal returns True and black wins on time.
C20_FlagFallByPolling ==
    (/\ op = "is_terminal"
     /\ nsuccess = 0
     /\ state.phase = "open"
     /\ info["time-black"] > 0
     /\ now - info["time-prev-move"] > info["time-white"] * TicksPerSec)
    => /\ ret = "True"
       /\ "winner" \in DOMAIN info
       /\ info["winner"] = "black wins!"

\* C21: a new game has the initial position as its one recorded position,
\* no recorded move and both clocks at the starting time; and the outcome
\* can be read with get_info in every state, 'winner' never being an unknown
\* key.
C21_FreshAndOutcomeReadable ==
    /\ op = "__init__" =>
          /\ info["state-history"] = <<StateRef>>
          /\ Position(1) = NewBoard
          /\ info["move-history"] = <<>>
          /\ info["time-white"] = info["time-start"]
          /\ info["time-black"] = info["time-start"]
    /\ ~ENABLED (GetInfo("winner") /\ ret' = "KeyError")

\* C22: get_info, get_prev_move and an is_terminal call that returns False
\* leave the board and the whole dictionary as they were, and the clocks
\* change in no step but a successful make_move (not when time passes, so a
\* clock read twice between two moves reads the same).
C22_ReadsChargeNothing ==
    [][/\ (\/ op' \in {"get_info", "get_prev_move"}
           \/ (op' = "is_terminal" /\ ret' = "False"))
          => (state' = state /\ info' = info)
       /\ (\/ info'["time-white"] # info["time-white"]
           \/ info'["time-black"] # info["time-black"])
          => SuccessfulMove]_vars

\* white's move left 2 seconds on its clock; the clock is read when two
\* seconds have passed since the creation, black to move, and still shows 2
C22_Witness ==
    /\ op = "get_info" /\ ret = "2"
    /\ info["time-white"] = 2
    /\ nsuccess = 1
    /\ state.turn = BLACK
    /\ now - info["time-prev-move"] = 2 * TicksPerSec

\* C24: an is_terminal call that finds both clocks at or below 0 returns
\* True with 'black wins!' (white's clock is looked at first).
C24_BothFlagsBlackWins ==
    (op = "is_terminal" /\ info["time-white"] <= 0 /\ info["time-black"] <= 0)
    => (ret = "True" /\ info["winner"] = "black wins!")

\* black's clock was written as 0 on the second move, white's as -1 on the
\* third, later: black wins
C24_Witness ==
    /\ op = "is_terminal" /\ ret = "True"
    /\ nsuccess = 3
    /\ info["time-start"] = 1 /\ info["time-increment"] = 0
    /\ info["time-black"] = 0 /\ info["time-white"] = -1
    /\ info["winner"] = "black wins!"

\* what C23 says of a _set_info(key, val) step
SetInfoPost(key, val) ==
    IF key \in DOMAIN info
    THEN /\ ret' = "True"
         /\ DOMAIN info' = DOMAIN info
         /\ info'[key] = val
         /\ \A k \in DOMAIN info \ {key} : info'[k] = info[k]
    ELSE /\ ret' = "False"
         /\ info' = info

C25_Defaults ==
    /\ NewGameRaises(NoKwargs) = ""
    /\ NewGameInfo(NoKwargs, 0)["time-white"] = DEFAULT_TIME
    /\ NewGameInfo(NoKwargs, 0)["time-black"] = DEFAULT_TIME
    /\ NewGameInfo(NoKwargs, 0)["time-increment"] = DEFAULT_INCREMENT
    /\ (tui.pc \notin {"off", "new"} /\ tui.kwargs = NoKwargs)
       => /\ tui.games >= 1
          /\ info["time-start"] = DEFAULT_TIME
          /\ info["time-increment"] = DEFAULT_INCREMENT

\* C26: in a game of the TUI start_clock is called at most once, and once
\* as soon as a text was entered; the call comes before the first
\* make_move, whether the text is accepted or not: the clock runs from the
\* time of the first entry, and a first move that is accepted right away is
\* charged nothing.  No later entry calls it again.  This holds for every
\* game the TUI creates.
C26_ClockStartedOnce ==
    tui.games >= 1 =>
       /\ tui.nclock <= 1
       /\ (tui.nmake >= 1) = (tui.nclock = 1)
       /\ tui.clock = (tui.nclock = 1)
       /\ tui.pc = "prompt" =>
             \A text \in TuiTexts :
                ~ENABLED (/\ TuiEnter(text)
                          /\ ~ IF tui.nmake = 0
                               THEN /\ tui'.nclock = 1
                                    /\ info'["time-prev-move"] = now
                                    /\ ret' = "True" =>
                                          info'["time-white"] =
                                             info["time-start"]
                                                + info["time-increment"]
                               ELSE /\ tui'.nclock = 1
                                    /\ info'["time-prev-move"]
                                          = info["time-prev-move"])

\* the second game of the TUI: its first text was refused, the second was
\* a move, and the clock was started once, some time after the TUI began
C26_Witness ==
    /\ tui.games = 2 /\ tui.nmake = 2 /\ tui.nclock = 1
    /\ nsuccess = 1
    /\ op = "make_move" /\ ret = "True"
    /\ info["time-prev-move"] > 0

\* C27: in the loop of the TUI a text that is not applied as a move leaves
\* the board, the histories and the clocks as they are and the user is
\* asked again; and the loop is left only by an is_terminal call that
\* returns True.
C27_LoopSurvivesText ==
    [][/\ (tui.pc = "prompt" /\ op' = "make_move" /\ ret' # "True")
          => /\ tui'.pc = "loop"
             /\ state' = state
             /\ info'["move-history"] = info["move-history"]
             /\ info'["time-white"] = info["time-white"]
             /\ info'["time-black"] = info["time-black"]
       /\ (tui.pc \in {"loop", "prompt"} /\ tui'.pc \notin {"loop", "prompt"})
          => (op' = "is_terminal" /\ ret' = "True")]_vars

====
